---- MODULE Spec2Model ----
(***************************************************************************)
(* Model of the dynamic DNS worker: src/src/index.ts (fetch,               *)
(* constructClientOptions, constructDNSRecord, updateHostnames) and        *)
(* src/src/pushNtfy.ts (pushNtfy).                                         *)
(*                                                                         *)
(* Strings the code inspects character by character (the Authorization     *)
(* header, the query parameters, the client IP header, token statuses) are *)
(* sequences of character codes.  null (a header or parameter that is      *)
(* absent) is the one-element sequence <<-1>>, which is no string.         *)
(* Record ids, comments and message formats, which the code only copies,   *)
(* are TLA+ strings.                                                       *)
(***************************************************************************)
EXTENDS Integers, Sequences, FiniteSets, TLC

\* ------------------------------------------------------------------------
\* Bounds of the model
\* ------------------------------------------------------------------------
MaxZones == 2
MaxHosts == 2
MaxCredLen == 2

\* ------------------------------------------------------------------------
\* Strings
\* ------------------------------------------------------------------------
null == << -1 >>

\* JavaScript truthiness of a string-or-null: null and '' are falsy.
Falsy(s) == s = null \/ s = << >>

\* a || b on string-or-null values
OrElse(a, b) == IF Falsy(a) THEN b ELSE a

IndexOfFrom(s, c, k) ==
  IF \E j \in k..Len(s) : s[j] = c
  THEN CHOOSE j \in k..Len(s) : s[j] = c /\ \A m \in k..(j - 1) : s[m] # c
  ELSE 0

\* String.prototype.indexOf for a one-character needle, 1-based; 0 is JavaScript's -1.
IndexOf(s, c) == IndexOfFrom(s, c, 1)

\* String.prototype.includes for a one-character needle
Includes(s, c) == \E j \in 1..Len(s) : s[j] = c

RECURSIVE Split(_, _)
\* String.prototype.split with a one-character separator: every piece, empty ones included.
Split(s, sep) ==
  LET k == IndexOf(s, sep)
  IN  IF k = 0 THEN << s >>
      ELSE << SubSeq(s, 1, k - 1) >> \o Split(SubSeq(s, k + 1, Len(s)), sep)

\* WhiteSpace and LineTerminator code points below 128
IsWhitespace(c) == c \in {9, 10, 11, 12, 13, 32}

RECURSIVE TrimStart(_)
TrimStart(s) ==
  IF s # << >> /\ IsWhitespace(Head(s)) THEN TrimStart(Tail(s)) ELSE s

RECURSIVE TrimEnd(_)
TrimEnd(s) ==
  IF s # << >> /\ IsWhitespace(s[Len(s)]) THEN TrimEnd(SubSeq(s, 1, Len(s) - 1)) ELSE s

\* String.prototype.trim
Trim(s) == TrimEnd(TrimStart(s))

\* Array.prototype.filter(Boolean) on an array of strings
FilterBoolean(a) == SelectSeq(a, LAMBDA s : ~Falsy(s))

\* the regular expression /[\0-\x1F\x7F]/ of constructClientOptions
HasControlChar(s) == \E j \in 1..Len(s) : s[j] \in 0..31 \/ s[j] = 127

\* ------------------------------------------------------------------------
\* atob / btoa (forgiving-base64 decode and base64 encode)
\* ------------------------------------------------------------------------
\* the value of a base64 character, -1 for a character outside the alphabet
B64Val(c) ==
  IF c \in 65..90 THEN c - 65
  ELSE IF c \in 97..122 THEN c - 71
  ELSE IF c \in 48..57 THEN c + 4
  ELSE IF c = 43 THEN 62
  ELSE IF c = 47 THEN 63
  ELSE -1

B64Char(v) ==
  IF v < 26 THEN v + 65
  ELSE IF v < 52 THEN v + 71
  ELSE IF v < 62 THEN v - 4
  ELSE IF v = 62 THEN 43
  ELSE 47

\* the characters atob strips before decoding: ASCII whitespace
StripWhitespace(s) == SelectSeq(s, LAMBDA c : c \notin {9, 10, 12, 13, 32})

\* a string whose length is a multiple of four loses one or two trailing '='
StripPadding(s) ==
  IF Len(s) > 0 /\ Len(s) % 4 = 0 /\ s[Len(s)] = 61
  THEN IF s[Len(s) - 1] = 61 THEN SubSeq(s, 1, Len(s) - 2) ELSE SubSeq(s, 1, Len(s) - 1)
  ELSE s

RECURSIVE DecodeGroups(_)
DecodeGroups(s) ==
  IF Len(s) >= 4
  THEN LET n == B64Val(s[1]) * 262144 + B64Val(s[2]) * 4096 + B64Val(s[3]) * 64 + B64Val(s[4])
       IN  << n \div 65536, (n \div 256) % 256, n % 256 >> \o DecodeGroups(SubSeq(s, 5, Len(s)))
  ELSE IF Len(s) = 3
  THEN LET n == B64Val(s[1]) * 4096 + B64Val(s[2]) * 64 + B64Val(s[3])
       IN  << n \div 1024, (n \div 4) % 256 >>
  ELSE IF Len(s) = 2
  THEN << (B64Val(s[1]) * 64 + B64Val(s[2])) \div 16 >>
  ELSE << >>

\* TRUE when atob(token) throws (InvalidCharacterError)
AtobThrows(token) ==
  LET s == StripPadding(StripWhitespace(token))
  IN  Len(s) % 4 = 1 \/ \E j \in 1..Len(s) : B64Val(s[j]) = -1

\* the string atob(token) returns when it does not throw
Atob(token) == DecodeGroups(StripPadding(StripWhitespace(token)))

RECURSIVE Btoa(_)
\* btoa, which the callers (and the tests) use to build the Authorization header
Btoa(b) ==
  IF Len(b) >= 3
  THEN LET n == b[1] * 65536 + b[2] * 256 + b[3]
       IN  << B64Char(n \div 262144), B64Char((n \div 4096) % 64),
              B64Char((n \div 64) % 64), B64Char(n % 64) >> \o Btoa(SubSeq(b, 4, Len(b)))
  ELSE IF Len(b) = 2
  THEN LET n == (b[1] * 256 + b[2]) * 4
       IN  << B64Char(n \div 4096), B64Char((n \div 64) % 64), B64Char(n % 64), 61 >>
  ELSE IF Len(b) = 1
  THEN << B64Char(b[1] \div 4), B64Char((b[1] % 4) * 16), 61, 61 >>
  ELSE << >>

\* ------------------------------------------------------------------------
\* Literals of the source
\* ------------------------------------------------------------------------
\* 'auto' (index.ts:48)
auto == << 97, 117, 116, 111 >>
\* 'active' (index.ts:80)
active == << 97, 99, 116, 105, 118, 101 >>
\* 'disabled' and 'expired', the other statuses the provider reports for a token
disabled == << 100, 105, 115, 97, 98, 108, 101, 100 >>
expired == << 101, 120, 112, 105, 114, 101, 100 >>

\* ------------------------------------------------------------------------
\* Errors and responses
\* ------------------------------------------------------------------------
\* a message: a format and the value interpolated into it
Msg(fmt, arg) == [fmt |-> fmt, arg |-> arg]

NoError == [name |-> "", message |-> Msg("", << >>)]

\* new HttpError(statusCode, message)
HttpError(statusCode, fmt, arg) ==
  [name |-> "HttpError", statusCode |-> statusCode, message |-> Msg(fmt, arg)]

\* any exception that is not an HttpError (new Error(..), a rejected provider call,
\* the DOMException of atob)
Error(text) == [name |-> "Error", message |-> Msg(text, << >>)]

Return(v) == [err |-> NoError, value |-> v]
Throw(e, v) == [err |-> e, value |-> v]

NoResponse == [status |-> 0, body |-> Msg("", << >>)]

\* new Response(body, { status })
Response(body, status) == [status |-> status, body |-> body]

\* a catch block that answers every exception with the exception's own message
Catch_LeaksMessage(err) ==
  LET isHttpError == err.name = "HttpError"
      statusCode == IF isHttpError THEN err.statusCode ELSE 500
  IN  Response(err.message, statusCode)

\* the catch block of fetch
Catch(err) ==
  LET isHttpError == err.name = "HttpError"
      message == IF isHttpError THEN err.message ELSE Msg("Internal Server Error", << >>)
      statusCode == IF isHttpError THEN err.statusCode ELSE 500
  IN  Response(message, statusCode)

\* ------------------------------------------------------------------------
\* constructClientOptions
\* ------------------------------------------------------------------------
NoClientOptions == [apiEmail |-> null, apiToken |-> null]

constructClientOptions(request) ==
  LET authHeader == request.Authorization
      parts == Split(authHeader, 32)
      token == IF Len(parts) >= 2 THEN parts[2] ELSE null
      decoded == Atob(token)
      delimiterIndex == IndexOf(decoded, 58)
  IN  IF Falsy(authHeader)
      THEN Throw(HttpError(401, "API Token missing.", << >>), NoClientOptions)
      ELSE IF Falsy(token)
      THEN Throw(HttpError(401, "Invalid API Token.", << >>), NoClientOptions)
      ELSE IF AtobThrows(token)
      THEN Throw(Error("InvalidCharacterError"), NoClientOptions)
      ELSE IF delimiterIndex = 0 \/ HasControlChar(decoded)
      THEN Throw(HttpError(401, "Invalid API Token.", << >>), NoClientOptions)
      ELSE Return([apiEmail |-> SubSeq(decoded, 1, delimiterIndex - 1),
                   apiToken |-> SubSeq(decoded, delimiterIndex + 1, Len(decoded))])

\* ------------------------------------------------------------------------
\* constructDNSRecord
\* ------------------------------------------------------------------------
\* the two parameters read in the other order
IpParam_MyipFirst(request) == OrElse(request.myip, request.ip)

\* searchParams.get('ip') || searchParams.get('myip')
IpParam(request) == OrElse(request.ip, request.myip)

\* the ip after the 'auto' substitution, or the error of lines 46-53
ResolveIp(request) ==
  LET ip == IpParam(request)
  IN  IF Falsy(ip)
      THEN Throw(HttpError(422, "Missing 'ip' parameter. Use ip=auto to use the client IP.", << >>), null)
      ELSE IF ip = auto
      THEN IF Falsy(request.cfConnectingIp)
           THEN Throw(HttpError(500, "ip=auto specified but client IP could not be determined.", << >>), null)
           ELSE Return(request.cfConnectingIp)
      ELSE Return(ip)

\* a type that does not depend on the ip
RecordType_AlwaysA(ip) == "A"

\* ip.includes('.') ? 'A' : 'AAAA'
RecordType(ip) == IF Includes(ip, 46) THEN "A" ELSE "AAAA"

\* hostnameParam.split(',').map((s) => s.trim()).filter(Boolean)
Hostnames(hostnameParam) ==
  LET pieces == Split(hostnameParam, 44)
  IN  FilterBoolean([k \in 1..Len(pieces) |-> Trim(pieces[k])])

constructDNSRecord(request) ==
  LET ip == ResolveIp(request)
      hostnameParam == OrElse(request.hostnames, request.hostname)
      hostnames == Hostnames(hostnameParam)
  IN  IF ip.err # NoError THEN Throw(ip.err, << >>)
      ELSE IF Falsy(hostnameParam)
      THEN Throw(HttpError(422, "Missing 'hostname' parameter.", << >>), << >>)
      ELSE IF Len(hostnames) = 0
      THEN Throw(HttpError(422, "No hostnames provided.", << >>), << >>)
      ELSE Return([k \in 1..Len(hostnames) |->
                    [content |-> ip.value, name |-> hostnames[k],
                     type |-> RecordType(ip.value), ttl |-> 1]])

\* ------------------------------------------------------------------------
\* updateHostnames: the decisions between the provider calls
\* ------------------------------------------------------------------------
\* a token status that is never checked
TokenError_Never(tokenStatus) == NoError

\* lines 80-82: a token that is not active
TokenError(tokenStatus) ==
  IF tokenStatus # active THEN HttpError(401, "API Token status: '%s'", tokenStatus) ELSE NoError

\* lines 86-88: no zone
ZonesError(zoneList) ==
  IF Len(zoneList) = 0 THEN HttpError(400, "No zones available in API Token.", << >>) ELSE NoError

\* rec.id as a condition: a record without id, or with an empty one, is dropped
HasId(rec) == "id" \in DOMAIN rec /\ rec.id # ""

\* line 100: records.filter((rec) => rec.id).map((rec) => ({ record: rec, zoneId: zone.id }))
NewMatches(records, zone) ==
  LET kept == SelectSeq(records, HasId)
  IN  [k \in 1..Len(kept) |-> [record |-> kept[k], zoneId |-> zone.id]]

\* a check of the matches that lets several matches pass
MatchesError_NoMultiple(found, newRecord) ==
  IF Len(found) = 0
  THEN HttpError(400, "No matching record found for '%s'. Create it manually first.", newRecord.name)
  ELSE NoError

\* lines 104-109: no match, or more than one
MatchesError(found, newRecord) ==
  IF Len(found) = 0
  THEN HttpError(400, "No matching record found for '%s'. Create it manually first.", newRecord.name)
  ELSE IF Len(found) > 1
  THEN HttpError(400, "Multiple matching records found for '%s'. Specify a unique hostname per zone.", newRecord.name)
  ELSE NoError

\* a proxied flag that is reset instead of preserved
Proxied_AlwaysFalse(record) == FALSE

\* line 113: const { proxied = false, comment } = record
Proxied(record) == IF "proxied" \in DOMAIN record THEN record.proxied ELSE FALSE
Comment(record) == IF "comment" \in DOMAIN record THEN record.comment ELSE "undefined"

\* lines 112-121: the arguments of cloudflare.dns.records.update
UpdateCall(match, newRecord) ==
  [id |-> match.record.id,
   params |-> [content |-> newRecord.content,
               zone_id |-> match.zoneId,
               name |-> newRecord.name,
               type |-> newRecord.type,
               proxied |-> Proxied(match.record),
               comment |-> Comment(match.record)]]

\* lines 94-98: the arguments of cloudflare.dns.records.list
ListCall(zone, newRecord) ==
  [zone_id |-> zone.id, name |-> newRecord.name, type |-> newRecord.type]

\* line 123: the success message, by the values interpolated into it
SuccessMsg(newRecord) ==
  [fmt |-> "DNS record for '%s' ('%s') updated to '%s'",
   name |-> newRecord.name, type |-> newRecord.type, content |-> newRecord.content]

\* ------------------------------------------------------------------------
\* The DNS provider
\* ------------------------------------------------------------------------
hostH == << 104 >>
hostO == << 111 >>

\* the records an account may hold, in the order the provider lists them
RecordUniverse ==
  << [zone_id |-> 1, name |-> hostH, type |-> "A", id |-> "rec1", proxied |-> TRUE, comment |-> "office"],
     [zone_id |-> 1, name |-> hostO, type |-> "A", id |-> "rec2"],
     [zone_id |-> 2, name |-> hostH, type |-> "A", id |-> "rec3", proxied |-> FALSE],
     [zone_id |-> 1, name |-> hostO, type |-> "A", id |-> "rec4", comment |-> "vpn"],
     [zone_id |-> 1, name |-> hostH, type |-> "A", proxied |-> TRUE],
     [zone_id |-> 1, name |-> hostH, type |-> "AAAA", id |-> "rec6", comment |-> "v6"] >>

Range(f) == {f[k] : k \in DOMAIN f}

\* the provider's answer to records.list: the records of the zone with that exact name and type
Query(db, params) ==
  SelectSeq(RecordUniverse,
            LAMBDA r : r \in db /\ r.zone_id = params.zone_id
                       /\ r.name = params.name /\ r.type = params.type)

TokenStatuses == {active, disabled, expired}

\* the provider's answer to zones.list for a token that sees k zones
ZoneList(k) == [j \in 1..k |-> [id |-> j]]

\* ------------------------------------------------------------------------
\* State
\* ------------------------------------------------------------------------
VARIABLES
  request,        \* the incoming request: its headers and query parameters
  env,            \* the worker's environment: NTFY_URL
  dns,            \* the records the provider holds
  pc,             \* where the handling of the request stands
  clientOptions,  \* the result of constructClientOptions
  newRecords,     \* the result of constructDNSRecord
  zones,          \* the zones zones.list returned
  rec,            \* index in newRecords of the record being processed
  zi,             \* index in zones of the next zone to list
  matches,        \* the matches collected for newRecords[rec]
  response,       \* the response of fetch, NoResponse until it returns
  thrown,         \* the exception the catch block of fetch received, if any
  calls,          \* the provider calls made, in order
  pushes          \* the calls of pushNtfy, in order

vars == << request, env, dns, pc, clientOptions, newRecords, zones, rec, zi,
           matches, response, thrown, calls, pushes >>

\* ------------------------------------------------------------------------
\* Requests and environments
\* ------------------------------------------------------------------------
RECURSIVE Join(_)
\* the pieces joined by ','
Join(pieces) ==
  IF Len(pieces) = 1 THEN pieces[1]
  ELSE pieces[1] \o << 44 >> \o Join(Tail(pieces))

\* the hostname parameters with one to MaxHosts comma-separated pieces
HostnameParams(pieces) ==
  {Join(l) : l \in UNION {[1..n -> pieces] : n \in 1..MaxHosts}}

\* the non-empty strings of at most MaxCredLen characters over the given characters
Strings(chars) == UNION {[1..n -> chars] : n \in 1..MaxCredLen}

basic == << 66, 97, 115, 105, 99 >>

\* "Basic " followed by the token
BasicHeader(token) == basic \o << 32 >> \o token

\* Basic btoa('a:b')
ValidHeader == BasicHeader(Btoa(<< 97, 58, 98 >>))

ipV4 == << 49, 46, 50 >>
ipV6 == << 58, 58, 49 >>
clientV6 == << 58, 58, 57 >>
ntfyUrl == << 104, 116, 116, 112, 115, 58, 47, 47, 110 >>

Request(authorization, cfConnectingIp, ip, myip, hostnames, hostname) ==
  [Authorization |-> authorization, cfConnectingIp |-> cfConnectingIp,
   ip |-> ip, myip |-> myip, hostnames |-> hostnames, hostname |-> hostname]

Start ==
  /\ pc = "received"
  /\ clientOptions = NoClientOptions
  /\ newRecords = << >>
  /\ zones = << >>
  /\ rec = 0
  /\ zi = 0
  /\ matches = << >>
  /\ response = NoResponse
  /\ thrown = NoError
  /\ calls = << >>
  /\ pushes = << >>

\* requests that differ in what the orchestration does with them
Init ==
  /\ request \in {Request(a, c, i, null, hs, null) :
                    a \in {null, ValidHeader},
                    c \in {null, clientV6},
                    i \in {null, auto, ipV4},
                    hs \in {null} \cup HostnameParams({hostH, hostO})}
  /\ env \in {[NTFY_URL |-> u] : u \in {null, << >>, ntfyUrl}}
  /\ dns \in SUBSET Range(RecordUniverse)
  /\ Start

\* an account with one A record for each of the two hostnames and one AAAA record
DnsOneEach == {RecordUniverse[1], RecordUniverse[2], RecordUniverse[6]}

\* requests that differ in their ip, myip, hostnames and hostname parameters and in
\* the client IP header
InitParams ==
  /\ request \in {Request(ValidHeader, c, i, m, hs, h) :
                    c \in {null, << >>, clientV6},
                    i \in {null, << >>, auto, ipV4},
                    m \in {null, auto, ipV6},
                    hs \in {null} \cup HostnameParams({<< >>, hostH, << 32, 111, 32 >>}),
                    h \in {null, hostO}}
  /\ env \in {[NTFY_URL |-> u] : u \in {null, ntfyUrl}}
  /\ dns = DnsOneEach
  /\ Start

\* the characters of the decoded credentials: ':', 'a', a space, and the control
\* characters 0x1F and 0x7F
CredChars == {58, 97, 32, 31, 127}

\* tokens atob cannot decode: '!!!!', 'Y' and 'YTpiY'
Undecodable == {<< 33, 33, 33, 33 >>, << 89 >>, << 89, 84, 112, 105, 89 >>}

\* Authorization headers: absent, empty, without a token, with an empty second
\* piece, with btoa of every credential string, and with the undecodable tokens
AuthHeaders ==
  {null, << >>, basic, basic \o << 32, 32 >> \o Btoa(<< 97, 58, 98 >>)}
    \cup {BasicHeader(Btoa(d)) : d \in Strings(CredChars)}
    \cup {BasicHeader(t) : t \in Undecodable}

InitCred ==
  /\ request \in {Request(a, null, ipV4, null, hs, null) :
                    a \in AuthHeaders, hs \in {null, hostH}}
  /\ env \in {[NTFY_URL |-> u] : u \in {null, ntfyUrl}}
  /\ dns = DnsOneEach
  /\ Start

\* ------------------------------------------------------------------------
\* fetch: one action per step between two awaits
\* ------------------------------------------------------------------------
\* the catch block of fetch receives err and fetch returns
Fail(err) ==
  /\ thrown' = err
  /\ response' = Catch(err)
  /\ pc' = "responded"

\* line 142
ConstructClientOptions ==
  /\ pc = "received"
  /\ LET r == constructClientOptions(request)
     IN  /\ clientOptions' = r.value
         /\ IF r.err # NoError
            THEN Fail(r.err)
            ELSE pc' = "credentials" /\ UNCHANGED << thrown, response >>
  /\ UNCHANGED << request, env, dns, newRecords, zones, rec, zi, matches, calls, pushes >>

\* line 143
ConstructDNSRecord ==
  /\ pc = "credentials"
  /\ LET r == constructDNSRecord(request)
     IN  /\ newRecords' = r.value
         /\ IF r.err # NoError
            THEN Fail(r.err)
            ELSE pc' = "parameters" /\ UNCHANGED << thrown, response >>
  /\ UNCHANGED << request, env, dns, clientOptions, zones, rec, zi, matches, calls, pushes >>

\* lines 76-82: cloudflare.user.tokens.verify() returns a status or rejects
VerifyToken ==
  /\ pc = "parameters"
  /\ \/ \E tokenStatus \in TokenStatuses :
          /\ calls' = Append(calls, [op |-> "verify", ok |-> TRUE, status |-> tokenStatus])
          /\ IF TokenError(tokenStatus) # NoError
             THEN Fail(TokenError(tokenStatus))
             ELSE pc' = "verified" /\ UNCHANGED << thrown, response >>
     \/ /\ calls' = Append(calls, [op |-> "verify", ok |-> FALSE])
        /\ Fail(Error("verify rejected"))
  /\ UNCHANGED << request, env, dns, clientOptions, newRecords, zones, rec, zi, matches, pushes >>

\* lines 85-90: cloudflare.zones.list() returns the zones of the token or rejects
ListZones ==
  /\ pc = "verified"
  /\ \/ \E k \in 0..MaxZones :
          /\ calls' = Append(calls, [op |-> "zones.list", ok |-> TRUE, count |-> k])
          /\ zones' = ZoneList(k)
          /\ IF ZonesError(ZoneList(k)) # NoError
             THEN Fail(ZonesError(ZoneList(k))) /\ UNCHANGED << rec, zi >>
             ELSE /\ pc' = "list"
                  /\ rec' = 1
                  /\ zi' = 1
                  /\ UNCHANGED << thrown, response >>
     \/ /\ calls' = Append(calls, [op |-> "zones.list", ok |-> FALSE])
        /\ Fail(Error("zones.list rejected"))
        /\ UNCHANGED << zones, rec, zi >>
  /\ UNCHANGED << request, env, dns, clientOptions, newRecords, matches, pushes >>

\* lines 93-102: one cloudflare.dns.records.list() call, which returns or rejects
ListRecords ==
  /\ pc = "list"
  /\ LET params == ListCall(zones[zi], newRecords[rec])
     IN  \/ /\ calls' = Append(calls, [op |-> "records.list", ok |-> TRUE, rec |-> rec, params |-> params])
            /\ matches' = matches \o NewMatches(Query(dns, params), zones[zi])
            /\ zi' = zi + 1
            /\ pc' = IF zi = Len(zones) THEN "matched" ELSE "list"
            /\ UNCHANGED << thrown, response >>
         \/ /\ calls' = Append(calls, [op |-> "records.list", ok |-> FALSE, rec |-> rec, params |-> params])
            /\ Fail(Error("records.list rejected"))
            /\ UNCHANGED << matches, zi >>
  /\ UNCHANGED << request, env, dns, clientOptions, newRecords, zones, rec, pushes >>

\* lines 104-121: the check of the matches and cloudflare.dns.records.update(),
\* which returns or rejects
UpdateRecord ==
  /\ pc = "matched"
  /\ LET err == MatchesError(matches, newRecords[rec])
         call == UpdateCall(matches[1], newRecords[rec])
     IN  IF err # NoError
         THEN Fail(err) /\ UNCHANGED calls
         ELSE \/ /\ calls' = Append(calls, [op |-> "records.update", ok |-> TRUE, rec |-> rec,
                                            id |-> call.id, params |-> call.params])
                 /\ pc' = "notify"
                 /\ UNCHANGED << thrown, response >>
              \/ /\ calls' = Append(calls, [op |-> "records.update", ok |-> FALSE, rec |-> rec,
                                            id |-> call.id, params |-> call.params])
                 /\ Fail(Error("records.update rejected"))
  /\ UNCHANGED << request, env, dns, clientOptions, newRecords, zones, rec, zi, matches, pushes >>

\* pushNtfy.ts lines 2-4: TRUE when pushNtfy throws
PushNtfyThrows(e) == Falsy(e.NTFY_URL)

\* the outcomes of the fetch of pushNtfy.ts lines 6-10; a rejection is caught and logged
PostOutcomes == {"sent", "failed"}

\* lines 123-128: pushNtfy, then the next record or the response
PushNtfy ==
  /\ pc = "notify"
  /\ IF PushNtfyThrows(env)
     THEN /\ pushes' = Append(pushes, [rec |-> rec, message |-> SuccessMsg(newRecords[rec]), outcome |-> "threw"])
          /\ Fail(Error("NTFY_URL missing from env or empty"))
          /\ UNCHANGED << rec, zi, matches >>
     ELSE /\ \E outcome \in PostOutcomes :
               pushes' = Append(pushes, [rec |-> rec, message |-> SuccessMsg(newRecords[rec]), outcome |-> outcome])
          /\ thrown' = thrown
          /\ IF rec = Len(newRecords)
             THEN /\ response' = Response(Msg("OK", << >>), 200)
                  /\ pc' = "responded"
                  /\ UNCHANGED << rec, zi, matches >>
             ELSE /\ rec' = rec + 1
                  /\ zi' = 1
                  /\ matches' = << >>
                  /\ pc' = "list"
                  /\ response' = response
  /\ UNCHANGED << request, env, dns, clientOptions, newRecords, zones, calls >>

Next ==
  \/ ConstructClientOptions
  \/ ConstructDNSRecord
  \/ VerifyToken
  \/ ListZones
  \/ ListRecords
  \/ UpdateRecord
  \/ PushNtfy

Spec == Init /\ [][Next]_vars

\* the parameter extraction on many parameter combinations
SpecParams == InitParams /\ [][Next]_vars

\* the credential extraction on many Authorization headers
SpecCred == InitCred /\ [][Next]_vars

\* ------------------------------------------------------------------------
\* Vocabulary of the properties
\* ------------------------------------------------------------------------
Responded == pc = "responded"

OK200 == [status |-> 200, body |-> Msg("OK", << >>)]

InternalServerError == [status |-> 500, body |-> Msg("Internal Server Error", << >>)]

Positions(op) == {j \in 1..Len(calls) : calls[j].op = op}

UpdateCalls == Positions("records.update")

ListCalls == Positions("records.list")

\* no provider call rejected
NoRejection == \A j \in 1..Len(calls) : calls[j].ok

\* the per-hostname loop was entered: the token was active and a zone was listed
LoopReached ==
  /\ Len(calls) >= 2
  /\ calls[2].op = "zones.list" /\ calls[2].ok /\ calls[2].count > 0

\* credential extraction succeeded
CredentialsExtracted == clientOptions # NoClientOptions

\* parameter extraction succeeded
ParametersExtracted == newRecords # << >>

\* the candidate set of the k-th hostname: the provider's records, with an id, in
\* the listed zones with the hostname and type of the k-th proposed change
CandidateSet(k) ==
  {r \in dns : /\ "id" \in DOMAIN r /\ r.id # ""
               /\ \E z \in 1..Len(zones) : zones[z].id = r.zone_id
               /\ r.name = newRecords[k].name
               /\ r.type = newRecords[k].type}

\* every listed zone was queried for the k-th hostname, and every query returned
ListedAll(k) ==
  /\ Len(zones) > 0
  /\ \A z \in 1..Len(zones) :
       \E j \in ListCalls : calls[j].ok /\ calls[j].rec = k /\ calls[j].params.zone_id = zones[z].id

NoMatchResponse(name) ==
  [status |-> 400,
   body |-> Msg("No matching record found for '%s'. Create it manually first.", name)]

MultipleResponse(name) ==
  [status |-> 400,
   body |-> Msg("Multiple matching records found for '%s'. Specify a unique hostname per zone.", name)]

\* the value of the ip parameter as the claims describe it, read literally:
\* 'ip', or 'myip' when 'ip' is absent
IpOrMyipIfAbsent == IF request.ip # null THEN request.ip ELSE request.myip

\* 'ip' when it is present and not empty, 'myip' otherwise
IpOrMyipIfEmpty == IF request.ip # null /\ request.ip # << >> THEN request.ip ELSE request.myip

\* the ip after the substitution of 'auto' by the client IP header
ResolvedIp == IF IpOrMyipIfEmpty = auto THEN request.cfConnectingIp ELSE IpOrMyipIfEmpty

MissingIpResponse ==
  [status |-> 422, body |-> Msg("Missing 'ip' parameter. Use ip=auto to use the client IP.", << >>)]

AutoIpResponse ==
  [status |-> 500, body |-> Msg("ip=auto specified but client IP could not be determined.", << >>)]

\* ------------------------------------------------------------------------
\* C1: for every request whose hostnames are all updated successfully at the
\* provider, the response is 200 / 'OK' whatever the notifier does (POST succeeds,
\* POST fails, NTFY_URL missing or empty).
\* ------------------------------------------------------------------------
AllUpdated ==
  /\ ParametersExtracted
  /\ \A k \in 1..Len(newRecords) : \E j \in UpdateCalls : calls[j].ok /\ calls[j].rec = k

C1_NotifierIsolation == (Responded /\ AllUpdated) => response = OK200

\* ------------------------------------------------------------------------
\* C2: an update-record call is issued for a hostname only when its candidate set
\* has exactly one record, and it targets that record's id in that record's zone;
\* a candidate set of size zero yields the 400 "No matching record found", one of
\* size two or more the 400 "Multiple matching records found", both naming the
\* hostname, and then no update is issued for the hostname.
\* ------------------------------------------------------------------------
C2_ExactlyOneMatch ==
  /\ \A j \in UpdateCalls :
       /\ Cardinality(CandidateSet(calls[j].rec)) = 1
       /\ \A r \in CandidateSet(calls[j].rec) :
            calls[j].id = r.id /\ calls[j].params.zone_id = r.zone_id
  /\ \A k \in 1..Len(newRecords) :
       (Responded /\ ListedAll(k) /\ Cardinality(CandidateSet(k)) = 0)
         => response = NoMatchResponse(newRecords[k].name)
  /\ \A k \in 1..Len(newRecords) :
       (Responded /\ ListedAll(k) /\ Cardinality(CandidateSet(k)) >= 2)
         => response = MultipleResponse(newRecords[k].name)

\* the second hostname has matches in two zones after the first one was updated
C2_Witness ==
  /\ Responded
  /\ rec = 2
  /\ ListedAll(2)
  /\ \E r1, r2 \in CandidateSet(2) : r1.zone_id # r2.zone_id
  /\ \E j \in UpdateCalls : calls[j].rec = 1

\* ------------------------------------------------------------------------
\* C3: when hk is the first hostname with zero or several matching records, the
\* response is the 400 naming hk, update-record calls were issued for exactly
\* h1..h(k-1), each once, and no list, update or notifier call is made for
\* h(k+1)..hn.
\* ------------------------------------------------------------------------
FirstBad(k) ==
  /\ Cardinality(CandidateSet(k)) # 1
  /\ \A m \in 1..(k - 1) : Cardinality(CandidateSet(m)) = 1

C3_ShortCircuit ==
  \A k \in 1..Len(newRecords) :
    (Responded /\ LoopReached /\ NoRejection /\ FirstBad(k)) =>
      /\ response \in {NoMatchResponse(newRecords[k].name), MultipleResponse(newRecords[k].name)}
      /\ \A m \in 1..(k - 1) : Cardinality({j \in UpdateCalls : calls[j].rec = m}) = 1
      /\ \A j \in UpdateCalls : calls[j].rec < k
      /\ \A j \in ListCalls : calls[j].rec <= k
      /\ \A j \in 1..Len(pushes) : pushes[j].rec < k

\* ------------------------------------------------------------------------
\* C4: with n hostnames that each have exactly one matching record and Z zones,
\* there is one list-records call per (hostname, zone) pair and one update-record
\* call per hostname, in the order of the hostnames, the update of a hostname
\* before any list call of the next, and the response is 200 / 'OK'.
\* ------------------------------------------------------------------------
C4_OrderedSequential ==
  (/\ Responded /\ LoopReached /\ NoRejection
   /\ \A k \in 1..Len(newRecords) : Cardinality(CandidateSet(k)) = 1) =>
    LET n == Len(newRecords)
        Z == Len(zones)
    IN  /\ response = OK200
        /\ Len(calls) = 2 + n * (Z + 1)
        /\ \A k \in 1..n :
             /\ \A z \in 1..Z :
                  LET c == calls[2 + (k - 1) * (Z + 1) + z]
                  IN  /\ c.op = "records.list" /\ c.rec = k
                      /\ c.params.zone_id = zones[z].id
                      /\ c.params.name = newRecords[k].name
             /\ LET u == calls[2 + k * (Z + 1)]
                IN  u.op = "records.update" /\ u.rec = k /\ u.params.name = newRecords[k].name

\* ------------------------------------------------------------------------
\* C5: no Authorization header: 401 'API Token missing.'; no second
\* space-separated token, or a token that cannot be decoded or decodes to a
\* string without ':' or with a control character: 401 'Invalid API Token.';
\* no provider operation is invoked in any of these cases.
\* ------------------------------------------------------------------------
SecondToken ==
  LET parts == Split(request.Authorization, 32)
  IN  IF Len(parts) >= 2 THEN parts[2] ELSE << >>

MalformedToken ==
  \/ SecondToken = << >>
  \/ AtobThrows(SecondToken)
  \/ ~Includes(Atob(SecondToken), 58)
  \/ \E j \in 1..Len(Atob(SecondToken)) : Atob(SecondToken)[j] \in (0..31) \cup {127}

C5_CredentialRejection ==
  /\ (Responded /\ Falsy(request.Authorization)) =>
       /\ response = [status |-> 401, body |-> Msg("API Token missing.", << >>)]
       /\ calls = << >>
  /\ (Responded /\ ~Falsy(request.Authorization) /\ MalformedToken) =>
       /\ response = [status |-> 401, body |-> Msg("Invalid API Token.", << >>)]
       /\ calls = << >>

\* ------------------------------------------------------------------------
\* C6: an HttpError is answered with its own status code and message; every
\* other exception, a rejected provider call among them, is answered with 500 and
\* 'Internal Server Error', never with 400, 401 or 422 and never with its own text.
\* ------------------------------------------------------------------------
C6_ErrorMapping ==
  /\ (Responded /\ thrown # NoError /\ thrown.name = "HttpError") =>
       response = [status |-> thrown.statusCode, body |-> thrown.message]
  /\ (Responded /\ thrown # NoError /\ thrown.name # "HttpError") =>
       /\ response = InternalServerError
       /\ response.body # thrown.message
  /\ (Responded /\ ~NoRejection) => response = InternalServerError
  /\ (Responded /\ response.status \in {400, 401, 422}) => thrown.name = "HttpError"
  /\ thrown # NoError => Responded

\* a rejected update-record call, answered with 500
C6_Witness ==
  /\ Responded
  /\ \E j \in UpdateCalls : ~calls[j].ok
  /\ response = InternalServerError

\* ------------------------------------------------------------------------
\* C7 as stated: the IP is 'ip', or 'myip' when 'ip' is absent; 'auto' is replaced
\* by the CF-Connecting-IP header, which every update-record call then carries;
\* 'auto' without the header: the 500; neither parameter: the 422; the header has
\* no influence when the parameter is not 'auto'.  (Requests that passed
\* credential extraction.)
\* ------------------------------------------------------------------------
C7_AsStated ==
  CredentialsExtracted =>
    /\ (Responded /\ request.ip = null /\ request.myip = null) => response = MissingIpResponse
    /\ (Responded /\ IpOrMyipIfAbsent = auto /\ request.cfConnectingIp = null)
         => response = AutoIpResponse
    /\ (IpOrMyipIfAbsent = auto /\ request.cfConnectingIp # null)
         => \A j \in UpdateCalls : calls[j].params.content = request.cfConnectingIp
    /\ (IpOrMyipIfAbsent # auto /\ IpOrMyipIfAbsent # null)
         => \A j \in UpdateCalls : calls[j].params.content = IpOrMyipIfAbsent

\* C7 as amended: the IP is 'ip' when it is present and not empty, 'myip'
\* otherwise; 'auto' is replaced by the CF-Connecting-IP header, which every
\* update-record call then carries; 'auto' with the header absent or empty: the
\* 500; no non-empty 'ip' or 'myip': the 422; the header has no influence when the
\* parameter is not 'auto'.  (Requests that passed credential extraction.)
C7_IpResolution ==
  CredentialsExtracted =>
    /\ (Responded /\ Falsy(IpOrMyipIfEmpty)) => response = MissingIpResponse
    /\ (Responded /\ IpOrMyipIfEmpty = auto /\ Falsy(request.cfConnectingIp))
         => response = AutoIpResponse
    /\ (IpOrMyipIfEmpty = auto /\ ~Falsy(request.cfConnectingIp))
         => \A j \in UpdateCalls : calls[j].params.content = request.cfConnectingIp
    /\ (IpOrMyipIfEmpty # auto /\ ~Falsy(IpOrMyipIfEmpty))
         => \A j \in UpdateCalls : calls[j].params.content = IpOrMyipIfEmpty
    /\ (ParametersExtracted \/ UpdateCalls # {}) => response \notin {MissingIpResponse, AutoIpResponse}

\* an empty 'ip' and 'myip=auto': the record is updated to the client IP header
C7_Witness ==
  /\ Responded
  /\ response = OK200
  /\ request.ip = << >>
  /\ request.myip = auto
  /\ \E j \in UpdateCalls : calls[j].ok /\ calls[j].params.content = request.cfConnectingIp

\* ------------------------------------------------------------------------
\* C8: after parameter extraction every proposed record change, every
\* list-records filter and every update-record call carries type 'A' if and only
\* if the resolved IP contains a '.', and 'AAAA' otherwise; all hostnames of the
\* request share the resolved IP and the type.
\* ------------------------------------------------------------------------
TypeOfResolvedIp == IF \E j \in 1..Len(ResolvedIp) : ResolvedIp[j] = 46 THEN "A" ELSE "AAAA"

C8_TypeInference ==
  ParametersExtracted =>
    /\ \A k \in 1..Len(newRecords) :
         newRecords[k].type = TypeOfResolvedIp /\ newRecords[k].content = ResolvedIp
    /\ \A j \in ListCalls \cup UpdateCalls : calls[j].params.type = TypeOfResolvedIp

\* an AAAA update for a request with 'auto' and an IPv6 client IP header
C8_Witness ==
  /\ IpOrMyipIfEmpty = auto
  /\ Len(newRecords) = 2
  /\ \E j \in UpdateCalls : calls[j].ok /\ calls[j].params.type = "AAAA"

\* ------------------------------------------------------------------------
\* C9: an update-record call is addressed to the matched record's id in the zone
\* where it was found, sets content to the resolved IP, sends the requested
\* hostname and type as name and type, the record's proxied flag (false when it
\* has none) and the record's comment unchanged.
\* ------------------------------------------------------------------------
C9_UpdateFrame ==
  \A j \in UpdateCalls :
    \E r \in CandidateSet(calls[j].rec) :
      /\ calls[j].id = r.id
      /\ calls[j].params.zone_id = r.zone_id
      /\ calls[j].params.content = ResolvedIp
      /\ calls[j].params.name = newRecords[calls[j].rec].name
      /\ calls[j].params.name = r.name
      /\ calls[j].params.type = TypeOfResolvedIp
      /\ calls[j].params.type = r.type
      /\ calls[j].params.proxied = (IF "proxied" \in DOMAIN r THEN r.proxied ELSE FALSE)
      /\ IF "comment" \in DOMAIN r
         THEN calls[j].params.comment = r.comment
         ELSE calls[j].params.comment = "undefined"

\* updates of a proxied record with a comment and of a record with neither field
C9_Witness ==
  /\ Responded
  /\ \E j \in UpdateCalls : calls[j].id = "rec1" /\ calls[j].params.proxied
  /\ \E j \in UpdateCalls : calls[j].id = "rec2" /\ calls[j].params.comment = "undefined"

\* ------------------------------------------------------------------------
\* C10: the steps occur only in the order credential extraction, parameter
\* extraction, verify-token, list-zones, then list-records and update-record for
\* each hostname; verify-token is called once, after both extractions; list-zones
\* once, after an 'active' status (any other status: the 401 with the status);
\* list-records only after a non-empty zone list (an empty one: the 400); a step
\* that fails is the last one, it is not retried, and the request has one response.
\* ------------------------------------------------------------------------
C10_PipelineOrder ==
  /\ pc = "received" => ~CredentialsExtracted /\ ~ParametersExtracted /\ calls = << >>
  /\ pc = "credentials" => CredentialsExtracted /\ ~ParametersExtracted /\ calls = << >>
  /\ ParametersExtracted => CredentialsExtracted
  /\ calls # << >> => CredentialsExtracted /\ ParametersExtracted
  /\ \A j \in 1..Len(calls) :
       /\ calls[j].op = "verify" <=> j = 1
       /\ calls[j].op = "zones.list" <=> j = 2
       /\ j >= 3 => calls[j].op \in {"records.list", "records.update"}
       /\ j < Len(calls) => calls[j].ok
  /\ Len(calls) >= 2 => calls[1].status = active
  /\ Len(calls) >= 3 => calls[2].count > 0
  /\ \A j \in ListCalls : \A m \in ListCalls :
       (j # m /\ calls[j].rec = calls[m].rec) => calls[j].params.zone_id # calls[m].params.zone_id
  /\ \A j \in UpdateCalls : \A m \in UpdateCalls : j # m => calls[j].rec # calls[m].rec
  /\ \A j \in 3..Len(calls) : \A m \in 3..Len(calls) : j < m => calls[j].rec <= calls[m].rec
  /\ \A j \in UpdateCalls : \A m \in ListCalls : calls[m].rec = calls[j].rec => m < j
  /\ (Responded /\ Len(calls) = 1 /\ calls[1].ok /\ calls[1].status # active) =>
       response = [status |-> 401, body |-> Msg("API Token status: '%s'", calls[1].status)]
  /\ (Responded /\ Len(calls) = 2 /\ calls[2].ok /\ calls[2].count = 0) =>
       response = [status |-> 400, body |-> Msg("No zones available in API Token.", << >>)]
  /\ (Len(calls) = 1 /\ calls[1].ok /\ calls[1].status # active) => Responded
  /\ (Len(calls) = 2 /\ calls[2].ok /\ calls[2].count = 0) => Responded
  /\ (calls # << >> /\ ~calls[Len(calls)].ok) => Responded
  /\ Responded <=> response # NoResponse

\* an expired token: the verify call is the only provider call and the answer is
\* the 401 with the status
C10_Witness ==
  /\ Responded
  /\ Len(calls) = 1
  /\ calls[1].ok /\ calls[1].status = expired
  /\ response.status = 401

====
